---- MODULE Spec2Model ----
(* A model of the cz-emoji commitizen adapter (src/index.js and its sibling *)
(* variant src/unnamed/part_000): configuration loading, the question      *)
(* pipeline, the prompt session and the commit-message formatter.          *)
(*                                                                         *)
(* A JavaScript string is a sequence of characters; a character is a       *)
(* one-element TLA+ string, and a code point outside ASCII is written by    *)
(* its name ("U+1F31F" is the glyph of the "feature" type, "U+2026" the     *)
(* ellipsis).  "\n" is the line feed.                                       *)
EXTENDS Integers, Sequences, FiniteSets, TLC

(***************************************************************************)
(* Strings                                                                 *)
(***************************************************************************)

\* The JavaScript value undefined, kept apart from every string: no string
\* holds the character "undefined".
Undefined == <<"undefined">>

\* JavaScript truthiness of a string-or-undefined value.
Truthy(v) == v # Undefined /\ v # <<>>

\* String(v) as a template literal `${v}` computes it.
ToStr(v) == IF v = Undefined THEN <<"u","n","d","e","f","i","n","e","d">> ELSE v

Whitespace == {" ", "\n"}

Glyphs == {"U+1F31F", "U+1F41E"}

RECURSIVE TrimLeft(_)
TrimLeft(s) == IF s # <<>> /\ Head(s) \in Whitespace THEN TrimLeft(Tail(s)) ELSE s

RECURSIVE TrimRight(_)
TrimRight(s) ==
  IF s # <<>> /\ s[Len(s)] \in Whitespace THEN TrimRight(SubSeq(s, 1, Len(s) - 1)) ELSE s

\* String.prototype.trim
Trim(s) == TrimLeft(TrimRight(s))

\* Array.prototype.join over an array of strings.
RECURSIVE Join(_, _)
Join(parts, sep) ==
  IF parts = <<>> THEN <<>>
  ELSE IF Len(parts) = 1 THEN parts[1]
  ELSE parts[1] \o sep \o Join(Tail(parts), sep)

\* String.prototype.split on one separator character.
RECURSIVE Split(_, _)
Split(s, c) ==
  IF \A i \in 1..Len(s) : s[i] # c THEN <<s>>
  ELSE LET i == CHOOSE k \in 1..Len(s) : s[k] = c /\ \A j \in 1..(k - 1) : s[j] # c
       IN  <<SubSeq(s, 1, i - 1)>> \o Split(SubSeq(s, i + 1, Len(s)), c)

\* Array.prototype.includes on an array of strings.
Includes(arr, v) == \E i \in 1..Len(arr) : arr[i] = v

\* The pad package: the string right-padded with spaces to the given length.
RECURSIVE pad(_, _)
pad(s, n) == IF Len(s) >= n THEN s ELSE pad(s \o <<" ">>, n)

\* The string-width package: a glyph of the emoji block takes two columns.
RECURSIVE stringWidth(_)
stringWidth(s) ==
  IF s = <<>> THEN 0
  ELSE (IF Head(s) \in Glyphs THEN 2 ELSE 1) + stringWidth(Tail(s))

(***************************************************************************)
(* Version-control context resolver                                        *)
(***************************************************************************)

Upper ==
  {"A","B","C","D","E","F","G","H","I","J","K","L","M",
   "N","O","P","Q","R","S","T","U","V","W","X","Y","Z"}

Lower ==
  {"a","b","c","d","e","f","g","h","i","j","k","l","m",
   "n","o","p","q","r","s","t","u","v","w","x","y","z"}

Digit == {"0","1","2","3","4","5","6","7","8","9"}

\* The longest run of characters of class cls in s that starts at index i:
\* the index of its last character, i - 1 when the run is empty.
RECURSIVE RunEnd(_, _, _)
RunEnd(s, i, cls) ==
  IF i <= Len(s) /\ s[i] \in cls THEN RunEnd(s, i + 1, cls) ELSE i - 1

\* The longest alphanumeric prefix the look-ahead may consume.
LookaheadMax == 10

\* The look-ahead of jiraMatcher at index i, ([A-Z0-9a-z]{1,10})-?$ : the rest
\* of the string is one to ten alphanumerics, then an optional hyphen, then
\* the end of the input.
Lookahead(s, i) ==
  \E n \in 1..LookaheadMax :
    /\ i + n - 1 <= Len(s)
    /\ \A k \in i..(i + n - 1) : s[k] \in Upper \cup Lower \cup Digit
    /\ \/ i + n - 1 = Len(s)
       \/ i + n = Len(s) /\ s[i + n] = "-"

\* One attempt of jiraMatcher at index i, (?!...)[A-Z]{1}[A-Z0-9]+-\d+ : the
\* index of the match's last character, 0 when there is no match at i.
MatchEnd(s, i) ==
  IF Lookahead(s, i) \/ s[i] \notin Upper THEN 0
  ELSE LET k == RunEnd(s, i + 1, Upper \cup Digit)
           d == RunEnd(s, k + 2, Digit)
       IN  IF k >= i + 1 /\ k + 1 <= Len(s) /\ s[k + 1] = "-" /\ d >= k + 2
           THEN d ELSE 0

\* String.prototype.match with the g flag: every match, left to right, each
\* search resuming after the previous match.
RECURSIVE MatchAll(_, _)
MatchAll(s, i) ==
  IF i > Len(s) THEN <<>>
  ELSE LET e == MatchEnd(s, i)
       IN  IF e > 0 THEN <<SubSeq(s, i, e)>> \o MatchAll(s, e + 1)
           ELSE MatchAll(s, i + 1)

NoJiraTicket == <<"n","o"," ","j","i","r","a"," ","t","i","c","k","e","t">>

\* getGitBranch once the git process has answered with stdout.
JiraTicketOf(stdout) ==
  LET jiraTickets == MatchAll(stdout, 1)
  IN  IF jiraTickets # <<>> THEN jiraTickets[Len(jiraTickets)] ELSE NoJiraTicket

(***************************************************************************)
(* Catalog builder                                                         *)
(***************************************************************************)

RECURSIVE MaxNameLengthFrom(_, _)
MaxNameLengthFrom(types, maxLength) ==
  IF types = <<>> THEN maxLength
  ELSE MaxNameLengthFrom(Tail(types),
         IF Len(Head(types).name) > maxLength THEN Len(Head(types).name) ELSE maxLength)

\* types.reduce(..., 0)
MaxNameLength(types) == MaxNameLengthFrom(types, 0)

\* ChoiceValue with the bare glyph as the emoji of a symbol configuration.
ChoiceValueBare(choice, symbol) ==
  [emoji |-> IF symbol THEN choice.emoji ELSE choice.code,
   name  |-> choice.name]

\* The value bound to a choice of the type catalog.
ChoiceValue(choice, symbol) ==
  [emoji |-> IF symbol THEN choice.emoji \o <<" ">> ELSE choice.code,
   name  |-> choice.name]

getEmojiChoices(config) ==
  LET maxNameLength == MaxNameLength(config.types)
  IN  [i \in 1..Len(config.types) |->
        LET choice == config.types[i]
        IN  [name  |-> pad(choice.name, maxNameLength) \o <<" ", " ">> \o choice.emoji
                         \o <<" ", " ">> \o choice.description,
             value |-> ChoiceValue(choice, config.symbol),
             code  |-> choice.code]]

(***************************************************************************)
(* Answer formatter                                                        *)
(***************************************************************************)

\* A field of an answer record, undefined when the record has no such key.
Get(answer, key) == IF key \in DOMAIN answer THEN answer[key] ELSE Undefined

\* formatScope without its test of the scope.
formatScopeAlways(scope) == <<"(">> \o ToStr(scope) \o <<")">>

formatScope(scope) == IF Truthy(scope) THEN <<"(">> \o ToStr(scope) \o <<")">> ELSE <<>>

\* EmojiPrelude without the space that ends it.
EmojiPreludeTight(type, scope) == type.emoji \o <<" ">> \o formatScope(scope)

\* The prelude of the head line of a non-conventional commit.
EmojiPrelude(type, scope) == type.emoji \o <<" ">> \o formatScope(scope) \o <<" ">>

\* The prelude of the head line of a conventional commit.
ConventionalPrelude(type, scope) ==
  type.name \o formatScope(scope) \o <<":", " ">> \o type.emoji

formatHead(answer, config) ==
  LET prelude == IF config.conventional
                 THEN ConventionalPrelude(answer.type, Get(answer, "scope"))
                 ELSE EmojiPrelude(answer.type, Get(answer, "scope"))
  IN  prelude \o <<" ">> \o ToStr(Get(answer, "subject"))

\* filter(array): the truthy items, in order.
RECURSIVE filter(_)
filter(array) ==
  IF array = <<>> THEN <<>>
  ELSE (IF Truthy(Head(array)) THEN <<Head(array)>> ELSE <<>>) \o filter(Tail(array))

formatLineItem(issues, line) == ToStr(issues) \o <<" ">> \o line

NONE == <<"[","N","O","N","E","]">>

\* WorkflowItem without its test for the "[NONE]" entry.
WorkflowItemAny(workflow) ==
  IF Truthy(workflow) THEN <<"#">> \o workflow ELSE Undefined

\* The workflow annotation of the smart-commit text, undefined when absent.
WorkflowItem(workflow) ==
  IF Truthy(workflow) /\ workflow # NONE THEN <<"#">> \o workflow ELSE Undefined

TimeItem(time) ==
  IF Truthy(time) THEN <<"#","t","i","m","e"," ">> \o time ELSE Undefined

CommentItem(comment) ==
  IF Truthy(comment) THEN <<"#","c","o","m","m","e","n","t"," ">> \o comment ELSE Undefined

SmartText(answer) ==
  Join(filter(<<WorkflowItem(Get(answer, "workflow")),
                TimeItem(Get(answer, "time")),
                CommentItem(Get(answer, "comment"))>>), <<" ">>)

formatBody(answer, config) ==
  ToStr(Get(answer, "body")) \o <<" ", "\n", " ">>
    \o formatLineItem(Get(answer, "issues"), SmartText(answer))

Ellipsis == <<"U+2026">>

\* The cli-truncate package, cutting at the end: the text when it fits in
\* columns, else its first columns - 1 characters and an ellipsis.
truncate(text, columns) ==
  IF columns < 1 THEN <<>>
  ELSE IF columns = 1 THEN Ellipsis
  ELSE IF stringWidth(text) <= columns THEN text
  ELSE SubSeq(text, 1, columns - 1) \o Ellipsis

\* rows with word appended to its last row.
AppendToLast(rows, word) == [rows EXCEPT ![Len(rows)] = @ \o word]

\* The loop of wrap-ansi's exec over the words of one line, with its default
\* options (trim, word wrap, not hard).
RECURSIVE WrapWords(_, _, _, _)
WrapWords(words, index, rows, columns) ==
  IF index > Len(words) THEN rows
  ELSE LET word    == words[index]
           trimmed == [rows EXCEPT ![Len(rows)] = TrimLeft(@)]
           width   == stringWidth(trimmed[Len(trimmed)])
           spaced  == IF index # 1 /\ width > 0
                      THEN AppendToLast(trimmed, <<" ">>) ELSE trimmed
           rowLength == stringWidth(spaced[Len(spaced)])
           pushed  == IF rowLength + stringWidth(word) > columns
                         /\ rowLength > 0 /\ stringWidth(word) > 0
                      THEN Append(spaced, <<>>) ELSE spaced
       IN  WrapWords(words, index + 1, AppendToLast(pushed, word), columns)

\* wrap-ansi's exec: one line of the input, wrapped to columns.
WrapLine(line, columns) ==
  IF Trim(line) = <<>> THEN <<>>
  ELSE LET rows == WrapWords(Split(line, " "), 1, << <<>> >>, columns)
       IN  Join([i \in 1..Len(rows) |-> TrimRight(rows[i])], <<"\n">>)

\* The wrap-ansi package: every line of the input wrapped on its own.
wrap(string, columns) ==
  LET lines == Split(string, "\n")
  IN  Join([i \in 1..Len(lines) |-> WrapLine(lines[i], columns)], <<"\n">>)

\* format(answers) on a terminal of the given width.
format(answers, columns) ==
  LET head == truncate(ToStr(Get(answers, "subject")), columns)
      body == wrap(IF Truthy(Get(answers, "body")) THEN answers["body"] ELSE <<>>, columns)
  IN  Trim(Join(filter(<<head, body>>), <<"\n", "\n">>))

(***************************************************************************)
(* Configuration                                                           *)
(***************************************************************************)

\* The built-in catalog of change types (lib/types), as the README lists it.
types ==
  << [emoji |-> <<"U+1F31F">>, code |-> <<":","s","t","a","r","2",":">>,
      description |-> <<"A"," ","n","e","w"," ","f","e","a","t","u","r","e">>,
      name |-> <<"f","e","a","t","u","r","e">>],
     [emoji |-> <<"U+1F41E">>, code |-> <<":","b","u","g",":">>,
      description |-> <<"A"," ","b","u","g"," ","f","i","x">>,
      name |-> <<"f","i","x">>] >>

subjectMaxLength == 75

defaultConfig ==
  [types |-> types, workflows |-> <<>>, symbol |-> FALSE, skipQuestions |-> <<"">>,
   subjectMaxLength |-> subjectMaxLength, conventional |-> FALSE]

\* { ...a, ...b }
Spread(a, b) ==
  [k \in DOMAIN a \cup DOMAIN b |-> IF k \in DOMAIN b THEN b[k] ELSE a[k]]

\* An object with no keys; null and undefined spread like it.
Empty == <<>>

\* getConfig: obj && obj.config in index.js, where obj is the parsed .czrc;
\* obj && obj.config && obj.config['cz-emoji'] in part_000, where obj is the
\* package manifest.
getConfig(impl, obj) ==
  IF "config" \notin DOMAIN obj THEN Empty
  ELSE IF impl = "index" THEN obj["config"]
  ELSE IF "cz-emoji" \in DOMAIN obj["config"] THEN obj["config"]["cz-emoji"]
  ELSE Empty

\* A promise's outcome.
Resolved(v) == [ok |-> TRUE, value |-> v]

Rejected == [ok |-> FALSE, value |-> Empty]

\* getGitBranch: the git process fails, or answers with the branch name.
getGitBranch(git) ==
  IF git.failed THEN Rejected ELSE Resolved(JiraTicketOf(git.stdout))

\* readFromCzrc: readFile(...).then(JSON.parse, () => null).then(getConfig).
\* A read that fails goes to the second handler; a parse that throws is the
\* first handler's failure, which the second handler of the same then never
\* sees.
readFromCzrc(impl, file) ==
  IF file.kind = "absent" THEN Resolved(getConfig(impl, Empty))
  ELSE IF file.kind = "unparsable" THEN Rejected
  ELSE Resolved(getConfig(impl, file.content))

\* readFromLocalCzrc (index.js) and readFromPkg (part_000): no package
\* manifest found gives null; index.js then reads the .czrc beside the
\* manifest, part_000 takes the manifest itself.
readConfig(impl, file) ==
  IF file.kind = "nopkg" THEN Resolved(Empty)
  ELSE IF impl = "index" THEN readFromCzrc(impl, file)
  ELSE Resolved(getConfig(impl, file.content))

\* loadConfig: [ok, value, jiraTicket], the promise's outcome and the value
\* left in the module-level jiraTicket.  part_000 has no branch lookup and no
\* jiraTicket: its issues question has no default.
loadConfig(impl, git, file, ticket) ==
  LET branch == IF impl = "index" THEN getGitBranch(git) ELSE Resolved(ticket)
      read   == readConfig(impl, file)
  IN  IF ~branch.ok THEN [ok |-> FALSE, value |-> Empty, jiraTicket |-> ticket]
      ELSE IF ~read.ok THEN [ok |-> FALSE, value |-> Empty, jiraTicket |-> branch.value]
      ELSE [ok |-> TRUE, value |-> Spread(defaultConfig, read.value),
            jiraTicket |-> branch.value]

(***************************************************************************)
(* Question pipeline builder                                               *)
(***************************************************************************)

\* The JavaScript value true, kept apart from every string.
JsTrue == <<"true">>

MustSpecify ==
  <<"M","u","s","t"," ","s","p","e","c","i","f","y"," ",
    "i","s","s","u","e"," ","I","D","s">>

\* The validate rule of the issues question.
validate(input) == IF ~Truthy(input) THEN MustSpecify ELSE JsTrue

Question(name, type, when, default, validated, filtered, choices, maxLength) ==
  [name |-> name, type |-> type, when |-> when, default |-> default,
   validate |-> validated, filter |-> filtered, choices |-> choices,
   maxLength |-> maxLength]

\* QuestionOrder with the workflow question after the subject question.
QuestionOrderSwapped ==
  <<"type", "scope", "issues", "time", "comment", "subject", "workflow", "body">>

\* when with skipQuestions ignored.
whenAlways(config, name) == TRUE

\* The when of the scope and body questions.
when(config, name) == ~Includes(config.skipQuestions, name)

\* The order of the questions array.
QuestionOrder ==
  <<"type", "scope", "issues", "time", "comment", "workflow", "subject", "body">>

\* The question of each name, as createQuestions writes it.
QuestionOf(name, config, jiraTicket) ==
  CASE name = "type" ->
         Question("type", "autocomplete", TRUE, Undefined, FALSE, "none",
                  getEmojiChoices(config), 0)
    [] name = "scope" ->
         Question("scope", IF "scopes" \in DOMAIN config THEN "list" ELSE "input",
                  when(config, "scope"), Undefined, FALSE, "none",
                  <<>>, 0)
    [] name = "issues" ->
         Question("issues", "input", TRUE, jiraTicket, TRUE, "none", <<>>, 0)
    [] name = "time" ->
         Question("time", "input", TRUE, Undefined, FALSE, "none", <<>>, 0)
    [] name = "comment" ->
         Question("comment", "input", TRUE, Undefined, FALSE, "none", <<>>, 0)
    [] name = "workflow" ->
         Question("workflow", "autocomplete", TRUE, Undefined, FALSE, "none",
                  <<[name |-> NONE, value |-> NONE]>> \o config.workflows, 0)
    [] name = "subject" ->
         Question("subject", "maxlength-input", TRUE, Undefined, FALSE, "formatHead",
                  <<>>, config.subjectMaxLength)
    [] name = "body" ->
         Question("body", "input", when(config, "body"),
                  Undefined, FALSE, "formatBody", <<>>, 0)

createQuestions(config, jiraTicket) ==
  [i \in 1..Len(QuestionOrder) |-> QuestionOf(QuestionOrder[i], config, jiraTicket)]

(***************************************************************************)
(* The environment of a session and what the user types                    *)
(***************************************************************************)

\* What `git rev-parse --abbrev-ref HEAD` does: it fails (no repository, no
\* commit yet, no git), or prints the branch name and a line feed.
GitOutcomes ==
  { [failed |-> TRUE,  stdout |-> <<>>],
    [failed |-> FALSE, stdout |-> <<"m","a","i","n","\n">>],
    [failed |-> FALSE, stdout |-> <<"f","/","A","B","C","-","1","2","3","-","f","i","x","\n">>],
    [failed |-> FALSE,
     stdout |-> <<"A","B","C","-","1","-","a","n","d","-","D","E","F","-","2","2","\n">>] }

Testing == <<"t","e","s","t","i","n","g">>

\* The config objects a project may hold.
Overrides ==
  << [skipQuestions |-> <<"scope", "body">>],
     [skipQuestions |-> <<"scope", "body">>, conventional |-> TRUE, symbol |-> TRUE],
     [skipQuestions |-> <<"body">>, workflows |-> <<[name |-> Testing, value |-> Testing]>>],
     [conventional |-> TRUE],
     [symbol |-> TRUE, workflows |-> <<[name |-> Testing, value |-> Testing]>>],
     [types |-> <<>>],
     [types |-> <<types[2]>>, symbol |-> TRUE, skipQuestions |-> <<"scope">>],
     [scopes |-> <<"api">>] >>

\* What the configuration file holds: no package manifest, an object without
\* a config key, an object with one; for index.js, whose file is the .czrc,
\* also no file and text that is not JSON; for part_000, whose file is the
\* package manifest, also a config without a cz-emoji key.
FileOutcomes(impl) ==
  { [kind |-> "nopkg", content |-> Empty],
    [kind |-> "json", content |-> Empty] }
  \cup (IF impl = "index"
        THEN { [kind |-> "json", content |-> [config |-> Overrides[i]]] :
                 i \in 1..Len(Overrides) }
             \cup { [kind |-> "absent", content |-> Empty],
                    [kind |-> "unparsable", content |-> Empty] }
        ELSE { [kind |-> "json", content |-> [config |-> ("cz-emoji" :> Overrides[i])]] :
                 i \in 1..Len(Overrides) }
             \cup { [kind |-> "json", content |-> [config |-> Empty]] })

\* The texts the user may type at each free-text question.
Typed(name) ==
  CASE name = "scope"   -> { <<>>, <<"a","p","i">> }
    [] name = "issues"  -> { <<>>, <<" ">>, <<"A","B","C","-","1">> }
    [] name = "time"    -> { <<>>, <<"2","h">> }
    [] name = "comment" -> { <<>>, <<"d","o","n","e">> }
    [] name = "subject" -> { <<>>, <<"a","d","d"," ","x">>, <<"(","a",")">> }
    [] name = "body"    -> { <<>>, <<"f","i","x"," ","b","u","g">> }
    [] OTHER            -> {}

NarrowColumns == 10

WideColumns == 80

\* The widths of the terminal, process.stdout.columns.
Columns == {NarrowColumns, WideColumns}

(***************************************************************************)
(* The session                                                             *)
(***************************************************************************)

VARIABLES
  impl,        \* which of the two variants runs: "index" or "part_000"
  git,         \* what the git process will do
  file,        \* what the configuration file holds
  pc,          \* where the promise chain of prompter stands
  jiraTicket,  \* the module-level jiraTicket
  config,      \* what loadConfig resolved with
  questions,   \* what createQuestions returned
  qi,          \* the index of the question the prompt engine stands at
  answers,     \* the answer record the prompt engine accumulates
  raw,         \* the text typed at each free-text question, as typed
  promptError, \* the validation message the prompt shows
  log,         \* the questions resolved and the transforms run, in order
  columns,     \* the terminal width format read
  message      \* what format returned

vars ==
  <<impl, git, file, pc, jiraTicket, config, questions, qi, answers, raw,
    promptError, log, columns, message>>

Init ==
  /\ impl \in {"index", "part_000"}
  /\ git \in IF impl = "index" THEN GitOutcomes
             ELSE {[failed |-> FALSE, stdout |-> <<"m","a","i","n","\n">>]}
  /\ file \in FileOutcomes(impl)
  /\ pc = "start"
  /\ jiraTicket = Undefined
  /\ config = Empty
  /\ questions = <<>>
  /\ qi = 0
  /\ answers = Empty
  /\ raw = Empty
  /\ promptError = <<>>
  /\ log = <<>>
  /\ columns = 0
  /\ message = <<>>

\* loadConfig(): a rejection has no handler in prompter's chain and ends it.
LoadConfig ==
  /\ pc = "start"
  /\ LET r == loadConfig(impl, git, file, jiraTicket)
     IN  /\ jiraTicket' = r.jiraTicket
         /\ config' = r.value
         /\ pc' = IF r.ok THEN "configured" ELSE "aborted"
  /\ UNCHANGED <<impl, git, file, questions, qi, answers, raw, promptError, log,
                 columns, message>>

\* .then(createQuestions)
CreateQuestions ==
  /\ pc = "configured"
  /\ questions' = createQuestions(config, jiraTicket)
  /\ pc' = "created"
  /\ UNCHANGED <<impl, git, file, jiraTicket, config, qi, answers, raw, promptError,
                 log, columns, message>>

\* .then(cz.prompt): the prompt engine takes the questions.
Prompt ==
  /\ pc = "created"
  /\ pc' = "prompting"
  /\ qi' = 1
  /\ UNCHANGED <<impl, git, file, jiraTicket, config, questions, answers, raw,
                 promptError, log, columns, message>>

\* The prompt engine stands at a question.
Asking == pc = "prompting" /\ qi \in 1..Len(questions)

\* A question whose when is false is passed over; its key is never set.
Skip ==
  /\ Asking
  /\ ~questions[qi].when
  /\ qi' = qi + 1
  /\ UNCHANGED <<impl, git, file, pc, jiraTicket, config, questions, answers, raw,
                 promptError, log, columns, message>>

\* A list question without choices: the prompt engine throws, and the chain
\* has no handler.
PromptThrows ==
  /\ Asking
  /\ questions[qi].when
  /\ questions[qi].type = "list"
  /\ questions[qi].choices = <<>>
  /\ pc' = "aborted"
  /\ UNCHANGED <<impl, git, file, jiraTicket, config, questions, qi, answers, raw,
                 promptError, log, columns, message>>

\* An autocomplete question: the user picks one entry of the catalog, with or
\* without narrowing it by a query; the answer is the entry's value.
Select ==
  /\ Asking
  /\ questions[qi].when
  /\ questions[qi].type = "autocomplete"
  /\ \E i \in 1..Len(questions[qi].choices) :
       answers' = answers @@ (questions[qi].name :> questions[qi].choices[i].value)
  /\ log' = Append(log, questions[qi].name)
  /\ qi' = qi + 1
  /\ UNCHANGED <<impl, git, file, pc, jiraTicket, config, questions, raw, promptError,
                 columns, message>>

\* The input prompt's reading of a line: nothing typed gives the default.
filterInput(text, default) ==
  IF ~Truthy(text) THEN (IF default = Undefined THEN <<>> ELSE default) ELSE text

\* The question's filter callback.
ApplyFilter(q, value, answer) ==
  CASE q.filter = "formatHead" -> formatHead(answer @@ ("subject" :> value), config)
    [] q.filter = "formatBody" -> formatBody(answer @@ ("body" :> value), config)
    [] OTHER -> value

\* What the prompt engine makes of a typed line: the value it would store and
\* the verdict of the validate rule on it.
Submit(q, text) ==
  LET value == ApplyFilter(q, filterInput(text, q.default), answers)
  IN  [value |-> value, verdict |-> IF q.validate THEN validate(value) ELSE JsTrue]

IsInput(q) == q.type \in {"input", "maxlength-input"}

\* The maxlength-input prompt takes no more than maxLength characters.
Fits(q, text) == q.type = "maxlength-input" => Len(text) <= q.maxLength

\* A free-text question whose line is accepted.
Input ==
  /\ Asking
  /\ questions[qi].when
  /\ IsInput(questions[qi])
  /\ \E text \in Typed(questions[qi].name) :
       LET q == questions[qi]
           s == Submit(q, text)
       IN  /\ Fits(q, text)
           /\ s.verdict = JsTrue
           /\ answers' = answers @@ (q.name :> s.value)
           /\ raw' = raw @@ (q.name :> text)
           /\ log' = log \o (IF q.filter = "none" THEN <<>> ELSE <<q.filter>>) \o <<q.name>>
  /\ promptError' = <<>>
  /\ qi' = qi + 1
  /\ UNCHANGED <<impl, git, file, pc, jiraTicket, config, questions, columns, message>>

\* A free-text question whose line the validate rule rejects: the message is
\* shown and the question stays.
Reject ==
  /\ Asking
  /\ questions[qi].when
  /\ IsInput(questions[qi])
  /\ \E text \in Typed(questions[qi].name) :
       LET s == Submit(questions[qi], text)
       IN  /\ Fits(questions[qi], text)
           /\ s.verdict # JsTrue
           /\ promptError' = s.verdict
  /\ UNCHANGED <<impl, git, file, pc, jiraTicket, config, questions, qi, answers, raw,
                 log, columns, message>>

\* .then(format): the prompt engine resolved with the answer record.
Format ==
  /\ pc = "prompting"
  /\ qi > Len(questions)
  /\ \E c \in Columns :
       /\ columns' = c
       /\ message' = format(answers, c)
  /\ pc' = "formatted"
  /\ UNCHANGED <<impl, git, file, jiraTicket, config, questions, qi, answers, raw,
                 promptError, log>>

\* .then(commit)
Commit ==
  /\ pc = "formatted"
  /\ pc' = "committed"
  /\ UNCHANGED <<impl, git, file, jiraTicket, config, questions, qi, answers, raw,
                 promptError, log, columns, message>>

Next ==
  \/ LoadConfig
  \/ CreateQuestions
  \/ Prompt
  \/ Skip
  \/ PromptThrows
  \/ Select
  \/ Input
  \/ Reject
  \/ Format
  \/ Commit

Spec == Init /\ [][Next]_vars

(***************************************************************************)
(* Properties                                                              *)
(***************************************************************************)

\* The session went through format.
Formatted == pc \in {"formatted", "committed"}

\* s holds an opening parenthesis and, after it, a closing one.
HasBracket(s) == \E i, j \in 1..Len(s) : i < j /\ s[i] = "(" /\ s[j] = ")"

\* s holds t as a contiguous substring.
Contains(s, t) ==
  \E i \in 0..(Len(s) - Len(t)) : SubSeq(s, i + 1, i + Len(t)) = t

HasParen(s) == \E i \in 1..Len(s) : s[i] \in {"(", ")"}

SkipsScopeAndBody == Formatted /\ config.skipQuestions = <<"scope", "body">>

C2_AsClaimed ==
  "issues" \in DOMAIN answers => Trim(answers["issues"]) # <<>>

\* C3, as claimed: when the configuration file is absent or cannot be parsed
\* (and the branch lookup succeeded), loadConfig resolves with the built-in
\* defaults and the session goes on.
C3_AsClaimed ==
  (pc # "start" /\ ~git.failed /\ file.kind \in {"nopkg", "absent", "unparsable"}) =>
    /\ pc # "aborted"
    /\ config = defaultConfig

\* C4, as claimed: when the branch lookup fails (and the configuration file
\* can be read), the default issue key is "no jira ticket" and the session is
\* not aborted.
C4_AsClaimed ==
  (pc # "start" /\ impl = "index" /\ git.failed /\ file.kind # "unparsable") =>
    /\ jiraTicket = NoJiraTicket
    /\ pc # "aborted"

\* C5, as claimed: the prompt engine is never given the questions of a
\* configuration with no change type.
C5_AsClaimed ==
  pc = "prompting" => config.types # <<>>

\* The head line with the given number of spaces before the subject in the
\* non-conventional form.
RECURSIVE Spaces(_)
Spaces(n) == IF n = 0 THEN <<>> ELSE <<" ">> \o Spaces(n - 1)

Bracketed(scope) ==
  IF scope = Undefined \/ scope = <<>> THEN <<>> ELSE <<"(">> \o scope \o <<")">>

HeadWith(gap) ==
  IF config.conventional
  THEN answers["type"].name \o Bracketed(Get(answers, "scope")) \o <<":", " ">>
         \o answers["type"].emoji \o <<" ">> \o raw["subject"]
  ELSE answers["type"].emoji \o <<" ">> \o Bracketed(Get(answers, "scope"))
         \o Spaces(gap) \o raw["subject"]

\* C6, as claimed: the head line is name + formatScope(scope) + ": " + emoji +
\* " " + subject in conventional mode and emoji + " " + formatScope(scope) +
\* " " + subject otherwise.
C6_AsClaimed ==
  "subject" \in DOMAIN answers => answers["subject"] = HeadWith(1)

\* C6, amended: the head line is name + formatScope(scope) + ": " + emoji +
\* " " + subject in conventional mode and emoji + " " + formatScope(scope) +
\* two spaces + subject otherwise, formatScope(scope) being "(" + scope + ")"
\* for a non-empty scope and "" for an empty or absent one.
C6_FormatHead ==
  "subject" \in DOMAIN answers => answers["subject"] = HeadWith(2)

\* C6's case: a non-conventional head line with a scope was formatted.
C6_Witness ==
  /\ "subject" \in DOMAIN answers
  /\ ~config.conventional
  /\ Get(answers, "scope") = <<"a","p","i">>

\* a and b, with one space between them when neither is empty.
Spaced(a, b) == IF a # <<>> /\ b # <<>> THEN a \o <<" ">> \o b ELSE a \o b

SuffixOf(workflow, time, comment) ==
  Spaced(Spaced(IF workflow # <<>> /\ workflow # NONE THEN <<"#">> \o workflow ELSE <<>>,
                IF time # <<>> THEN <<"#","t","i","m","e"," ">> \o time ELSE <<>>),
         IF comment # <<>> THEN <<"#","c","o","m","m","e","n","t"," ">> \o comment ELSE <<>>)

\* C7: the body line is the body text, a line break, the issue keys and the
\* smart-commit suffix: "#" + workflow, "#time " + time, "#comment " + comment,
\* in that order, one space apart, each only when its answer is non-empty and
\* the workflow only when it is not "[NONE]"; no "#[NONE]" is produced.
C7_FormatBody ==
  "body" \in DOMAIN answers =>
    /\ answers["body"] =
         raw["body"] \o <<" ", "\n", " ">> \o answers["issues"] \o <<" ">>
           \o SuffixOf(answers["workflow"], answers["time"], answers["comment"])
    /\ ~Contains(answers["body"], <<"#">> \o NONE)

\* C7's case: a body line was formatted for the "[NONE]" workflow with a time
\* and a comment.
C7_Witness ==
  /\ "body" \in DOMAIN answers
  /\ answers["workflow"] = NONE
  /\ answers["time"] = <<"2","h">>
  /\ answers["comment"] = <<"d","o","n","e">>

\* The catalog the type question holds, with the given text after the glyph
\* of a symbol configuration.
CatalogWith(after) ==
  LET choices == questions[1].choices
  IN  /\ Len(choices) = Len(config.types)
      /\ \A i \in 1..Len(choices) :
           /\ choices[i].value.name = config.types[i].name
           /\ choices[i].value.emoji =
                IF config.symbol THEN config.types[i].emoji \o after
                ELSE config.types[i].code

\* C8, as claimed: the catalog has one entry per type, in order, whose
\* value.emoji is the glyph when symbol is true and the code otherwise, and
\* whose value.name is the type's name.
C8_AsClaimed ==
  questions # <<>> => CatalogWith(<<>>)

\* C8, amended: the catalog has one entry per type, in order, whose
\* value.emoji is the glyph followed by one space when symbol is true and the
\* code otherwise, and whose value.name is the type's name.
C8_EmojiChoices ==
  questions # <<>> => CatalogWith(<<" ">>)

\* C8's case: a catalog was built for a symbol configuration with types.
C8_Witness ==
  /\ questions # <<>>
  /\ config.symbol
  /\ config.types # <<>>

\* The entries of the log before index i.
Before(i) == {log[j] : j \in 1..(i - 1)}

\* C9: the questions are type, scope, issues, time, comment, workflow,
\* subject, body in that order; the subject transform runs only after type,
\* scope (unless skipped), issues, time, comment and workflow are resolved,
\* and the body transform only after the subject transform.
C9_Order ==
  /\ questions # <<>> =>
       [i \in 1..Len(questions) |-> questions[i].name] =
         <<"type", "scope", "issues", "time", "comment", "workflow", "subject", "body">>
  /\ \A i \in 1..Len(log) :
       /\ log[i] = "formatHead" =>
            /\ {"type", "issues", "time", "comment", "workflow"} \subseteq Before(i)
            /\ ~Includes(config.skipQuestions, "scope") => "scope" \in Before(i)
       /\ log[i] = "formatBody" => {"formatHead", "subject"} \subseteq Before(i)

\* C9's case: a session asked every question and ran both transforms.
C9_Witness ==
  /\ pc = "committed"
  /\ "scope" \in DOMAIN answers
  /\ \E i, j \in 1..Len(log) : log[i] = "formatHead" /\ log[j] = "formatBody"

\* C10: when body is in skipQuestions the body transform never runs and the
\* message is the truncated, trimmed head line alone, a function of the type,
\* the scope, the subject and the width only: the issues, time, comment and
\* workflow answers have no part in it.
C10_HeadOnly ==
  (Formatted /\ Includes(config.skipQuestions, "body")) =>
    /\ \A i \in 1..Len(log) : log[i] # "formatBody"
    /\ "body" \notin DOMAIN answers
    /\ \A i \in 1..Len(message) : message[i] # "\n"
    /\ message = Trim(truncate(HeadWith(2), columns))

\* C10's case: a session without the body question came to its message after
\* the user gave an issue key, a time and a comment.
C10_Witness ==
  /\ Formatted
  /\ Includes(config.skipQuestions, "body")
  /\ answers["issues"] = <<"A","B","C","-","1">>
  /\ answers["time"] = <<"2","h">>
  /\ answers["comment"] = <<"d","o","n","e">>
  /\ message # <<>>

====
